---- MODULE Spec2Model ----
(***************************************************************************)
(* Model of yt_spotify_auto_switch.py: the monitor loop that pauses        *)
(* Spotify while a browser media session is playing and resumes it when    *)
(* none is, together with the platform (the OS media sessions), the        *)
(* hotkey thread that sets the stop event, and the classification helpers. *)
(*                                                                         *)
(* Python values: None/True/False of the tri-state locals are the strings  *)
(* "None"/"True"/"False"; an unreadable playback status or type is         *)
(* NoStatus; an identity string is a sequence of one-character strings.    *)
(***************************************************************************)
EXTENDS Integers, Sequences, FiniteSets, TLC

\* ---------------------------------------------------------------- bounds
\* most sessions the platform holds at once
MaxSessions == 2
\* longest snapshot handed to the classification helpers on their own
MaxSnapshot == 2
\* sub-interval ticks one POLL_INTERVAL sleep is divided into
TicksPerInterval == 2

\* ------------------------------------------------------- PlaybackStatus
CLOSED == 0
OPENED == 1
CHANGING == 2
STOPPED == 3
PLAYING == 4
PAUSED == 5
\* status/ptype stay None in get_playback_info when the read raises
NoStatus == -1

\* ------------------------------------------------------------- strings
Str_chrome   == <<"c","h","r","o","m","e">>
Str_msedge   == <<"m","s","e","d","g","e">>
Str_edge     == <<"e","d","g","e">>
Str_firefox  == <<"f","i","r","e","f","o","x">>
Str_brave    == <<"b","r","a","v","e">>
Str_opera    == <<"o","p","e","r","a">>
Str_vivaldi  == <<"v","i","v","a","l","d","i">>
Str_msedgewebview == <<"m","s","e","d","g","e","w","e","b","v","i","e","w">>
Str_webview2 == <<"w","e","b","v","i","e","w","2">>

BROWSER_AUMID_KEYWORDS ==
    << Str_chrome, Str_msedge, Str_edge, Str_firefox, Str_brave, Str_opera,
       Str_vivaldi, Str_msedgewebview, Str_webview2 >>

SPOTIFY_AUMID_TOKEN == <<"s","p","o","t","i","f","y">>

UpperLetters ==
    <<"A","B","C","D","E","F","G","H","I","J","K","L","M",
      "N","O","P","Q","R","S","T","U","V","W","X","Y","Z">>
LowerLetters ==
    <<"a","b","c","d","e","f","g","h","i","j","k","l","m",
      "n","o","p","q","r","s","t","u","v","w","x","y","z">>

\* str.lower() on one character
LowerChar(c) ==
    IF \E i \in 1..26 : UpperLetters[i] = c
    THEN LowerLetters[CHOOSE i \in 1..26 : UpperLetters[i] = c]
    ELSE c

\* the inverse table, used to build the letter-case variants of a string
UpperChar(c) ==
    IF \E i \in 1..26 : LowerLetters[i] = c
    THEN UpperLetters[CHOOSE i \in 1..26 : LowerLetters[i] = c]
    ELSE c

\* the text with the letters at the positions of mask in upper case
Variant(base, mask) ==
    [i \in 1..Len(base) |-> IF i \in mask THEN UpperChar(base[i]) ELSE base[i]]

\* a comparison that keeps the case of the identity
LowerNoop(s) == s

\* str.lower()
Lower(s) == [i \in 1..Len(s) |-> LowerChar(s[i])]

\* Python's  k in s  on strings
Contains(s, k) ==
    \E i \in 0..(Len(s) - Len(k)) : SubSeq(s, i + 1, i + Len(k)) = k

\* (aumid or "") : a missing identity reads as the empty string
OrEmpty(aumid) == IF aumid = <<"None">> THEN <<>> ELSE aumid

is_browser_session(aumid) ==
    LET lid == Lower(OrEmpty(aumid))
    IN  \E j \in 1..Len(BROWSER_AUMID_KEYWORDS) :
            Contains(lid, BROWSER_AUMID_KEYWORDS[j])

is_spotify_session(aumid) ==
    Contains(Lower(OrEmpty(aumid)), SPOTIFY_AUMID_TOKEN)

\* ------------------------------------------------------------ platform
\* The applications that may own a media session, and the identity
\* (source_app_user_model_id) each reports.
Apps == {"chrome", "spotify", "spotifyweb"}

\* the same and a player that is neither a browser nor Spotify
AllApps == Apps \cup {"vlc"}

AppAumid(app) ==
    CASE app = "chrome"     -> <<"C","h","r","o","m","e">>
      [] app = "spotify"    -> <<"S","p","o","t","i","f","y",".","e","x","e">>
      [] app = "spotifyweb" -> <<"S","p","o","t","i","f","y",".","M","S","E","d","g","e">>
      [] app = "vlc"        -> <<"v","l","c",".","e","x","e">>
      [] OTHER              -> <<"None">>

\* is_browser_session / is_spotify_session of each application's identity,
\* tabulated once
BrowserApp == [app \in AllApps |-> is_browser_session(AppAumid(app))]
SpotifyApp == [app \in AllApps |-> is_spotify_session(AppAumid(app))]

\* the playback statuses the platform takes in the loop's environment
EnvStatuses == {NoStatus, PLAYING, PAUSED}

\* every value info.playback_status can read as
AllStatuses == {NoStatus, CLOSED, OPENED, CHANGING, STOPPED, PLAYING, PAUSED}

\* values info.playback_type can read as: unreadable, Music, Video
AllPtypes == {NoStatus, 1, 2}

\* the lists of at most n sessions of distinct applications
SessionLists(apps, statuses, ptypes, n) ==
    UNION { { w \in [1..m -> [id : apps, status : statuses, ptype : ptypes]] :
                \A i, j \in 1..m : i # j => w[i].id # w[j].id } : m \in 0..n }

VARIABLES
    pc,                    \* where monitor_loop is
    mgr,                   \* "none" | "ok" | "error": outcome of request_manager
    stop_event,            \* threading.Event
    last_browser_playing,  \* "None" | "True" | "False"
    last_spotify_playing,  \* "None" | "True" | "False"
    browser_playing,       \* this cycle's classification ("None" before any)
    spotify_session,       \* this cycle's player handle (an app) or "None"
    spotify_playing,       \* this cycle's "None" | "True" | "False"
    req,                   \* the request in flight at the platform, or NoReq
    world,                 \* the platform's sessions, in enumeration order
    settled,               \* the environment has stopped changing by itself
    ticks,                 \* ticks left of the current sleep
    \* what the current cycle has done so far (cleared when the cycle ends)
    enum_failed,           \* mgr.get_sessions() raised in this cycle
    nPause, nPlay,         \* try_spotify_pause / try_spotify_play calls
    nCmd,                  \* commands that reached a session of the platform
    log,                   \* events printed
    failed,                \* kind of request whose platform call raised
    prev_failed,           \* the same, of the previous cycle
    \* bookkeeping about the run
    snapTaken,             \* a snapshot was ever taken
    stopInSleep,           \* the stop event was set during a sleep
    ticksSinceStop,        \* ticks slept through since then
    \* an identity string handed to is_browser_session / is_spotify_session
    probe                  \* [base, text, done, browser, spotify]

vars == << pc, mgr, stop_event, last_browser_playing, last_spotify_playing,
           browser_playing, spotify_session, spotify_playing, req, world,
           settled, ticks, enum_failed, nPause, nPlay, nCmd, log, failed,
           prev_failed, snapTaken, stopInSleep, ticksSinceStop, probe >>

NoReq == [kind |-> "none", target |-> "None"]

\* no identity is being looked at
NoProbe == [base |-> << >>, text |-> << >>, done |-> FALSE,
            browser |-> FALSE, spotify |-> FALSE]

\* ---------------------------------------------------------- classifier
source_app_user_model_id(s) == AppAumid(s.id)

\* is_browser_session(getattr(s, "source_app_user_model_id", ""))
session_is_browser(s) == BrowserApp[s.id]

\* is_spotify_session(getattr(s, "source_app_user_model_id", ""))
session_is_spotify(s) == SpotifyApp[s.id]

\* (status, ptype) of a session; either is NoStatus when unreadable
get_playback_info(s) == << s.status, s.ptype >>

\* a list_sessions that hands on what it had when the call raises
list_sessions_stale(w, raises) == w

\* list(mgr.get_sessions()), or [] when the call raises
list_sessions(w, raises) == IF raises THEN <<>> ELSE w

\* a pick that keeps the last Spotify session of the list
pick_from_last(sessions, i) ==
    LET M == {j \in i..Len(sessions) : session_is_spotify(sessions[j])}
    IN  IF M = {} THEN 0 ELSE CHOOSE j \in M : \A m \in M : m <= j

RECURSIVE pick_from(_, _)
pick_from(sessions, i) ==
    IF i > Len(sessions) THEN 0
    ELSE IF session_is_spotify(sessions[i])
         THEN i
         ELSE pick_from(sessions, i + 1)

\* position of the first Spotify session of the list; 0 is Python's None
pick_spotify_session(sessions) == pick_from(sessions, 1)

\* a scan that answers from the first browser session alone
RECURSIVE any_from_first(_, _)
any_from_first(sessions, i) ==
    IF i > Len(sessions) THEN "False"
    ELSE IF ~session_is_browser(sessions[i])
         THEN any_from_first(sessions, i + 1)
         ELSE IF get_playback_info(sessions[i])[1] = PLAYING
              THEN "True"
              ELSE "False"

RECURSIVE any_from(_, _)
any_from(sessions, i) ==
    IF i > Len(sessions) THEN "False"
    ELSE IF ~session_is_browser(sessions[i])
         THEN any_from(sessions, i + 1)
         ELSE IF get_playback_info(sessions[i])[1] = PLAYING
              THEN "True"
              ELSE any_from(sessions, i + 1)

any_browser_video_playing(sessions) == any_from(sessions, 1)

\* k is the position pick_spotify_session gave (0: s is None)
get_spotify_playing(sessions, k) ==
    IF k = 0 THEN "None"
    ELSE IF get_playback_info(sessions[k])[1] = NoStatus THEN "None"
         ELSE IF get_playback_info(sessions[k])[1] = PLAYING THEN "True"
              ELSE "False"

\* ------------------------------------------------------- policy (loop)
\* a change block that does not look at Spotify's state
EdgeActionEager(last_b, b, sp) ==
    IF last_b = "None" \/ b # last_b
    THEN (IF b = "True" THEN "pause" ELSE "play")
    ELSE "none"

\* lines 188-202: the request of the block that reacts to a change of
\* browser playback: "pause", "play" or "none"
EdgeAction(last_b, b, sp) ==
    IF last_b = "None" \/ b # last_b
    THEN IF b = "True"
         THEN (IF sp # "False" THEN "pause" ELSE "none")
         ELSE (IF sp # "True" THEN "play" ELSE "none")
    ELSE "none"

\* the reconcile block commented out
LevelActionOff(b, sp) == "none"

\* a reconcile block with its two requests swapped
LevelActionSwapped(b, sp) ==
    IF b = "True" /\ sp = "True" THEN "play"
    ELSE IF b # "True" /\ sp = "False" THEN "pause"
         ELSE "none"

\* lines 206-211: the request of the reconcile block
LevelAction(b, sp) ==
    IF b = "True" /\ sp = "True" THEN "pause"
    ELSE IF b # "True" /\ sp = "False" THEN "play"
         ELSE "none"

\* a loop that prints the browser state in every cycle
TransitionEventAlways(last_b, b) ==
    << IF b = "True" THEN "Browser media is now PLAYING"
                     ELSE "Browser media is now PAUSED/STOPPED" >>

\* lines 188-190: the line printed when browser playback changed
TransitionEvent(last_b, b) ==
    IF last_b = "None" \/ b # last_b
    THEN << IF b = "True" THEN "Browser media is now PLAYING"
                          ELSE "Browser media is now PAUSED/STOPPED" >>
    ELSE << >>

\* try_spotify_pause / try_spotify_play on a session: True unless the
\* awaited call raises and the call made again in the handler raises too
TryResult(firstRaises, secondRaises) ==
    IF ~firstRaises THEN TRUE
    ELSE IF ~secondRaises THEN TRUE
         ELSE FALSE

\* the status a request leaves the session in when it takes effect
EffectStatus(kind) == IF kind = "pause" THEN PAUSED ELSE PLAYING

\* the line printed by the change block after a successful request
ActionEvent(kind) == IF kind = "pause" THEN "Paused Spotify." ELSE "Played Spotify."

Count(kind, which) == IF kind = which THEN 1 ELSE 0

\* an executor without the  if s is None  guard
ReachesPlatformUnguarded(act, s) == act # "none"

\* lines 145-146 / 160-161: try_spotify_* returns False at once when the
\* session is None; otherwise the command goes to the session
ReachesPlatform(act, s) == act # "none" /\ s # "None"

\* a loop that keeps the handle it already has
SessionHandleCached(prev, sessions, k) ==
    IF prev # "None" THEN prev
    ELSE IF k = 0 THEN "None" ELSE sessions[k].id

\* line 184: the handle pick_spotify_session returns (prev is the handle
\* the local held before the assignment)
SessionHandle(prev, sessions, k) ==
    IF k = 0 THEN "None" ELSE sessions[k].id

\* ---------------------------------------------------------------- Init
Init ==
    /\ pc = "start"
    /\ mgr = "none"
    /\ stop_event = FALSE
    /\ last_browser_playing = "None"
    /\ last_spotify_playing = "None"
    /\ browser_playing = "None"
    /\ spotify_session = "None"
    /\ spotify_playing = "None"
    /\ req = NoReq
    /\ world = << >>
    /\ settled = FALSE
    /\ ticks = 0
    /\ enum_failed = FALSE
    /\ nPause = 0
    /\ nPlay = 0
    /\ nCmd = 0
    /\ log = << >>
    /\ failed = "none"
    /\ prev_failed = "none"
    /\ snapTaken = FALSE
    /\ stopInSleep = FALSE
    /\ ticksSinceStop = 0
    /\ probe = NoProbe

cycleVars == << enum_failed, nPause, nPlay, nCmd, log, failed, prev_failed >>
localVars == << browser_playing, spotify_session, spotify_playing >>
lastVars  == << last_browser_playing, last_spotify_playing >>
stopVars  == << stop_event, stopInSleep, ticksSinceStop >>

\* ------------------------------------------------------ monitor_loop
\* line 174: the session manager is obtained
RequestManagerOk ==
    /\ pc = "start"
    /\ mgr' = "ok"
    /\ pc' = "top"
    /\ UNCHANGED << probe, lastVars, localVars, req, world, settled, ticks,
                    cycleVars, snapTaken, stopVars >>

\* a monitor_loop that swallows the error and enters the loop
RequestManagerSwallowed ==
    /\ pc = "start"
    /\ mgr' = "error"
    /\ pc' = "top"
    /\ UNCHANGED << probe, lastVars, localVars, req, world, settled, ticks,
                    cycleVars, snapTaken, stopVars >>

\* line 174: request_async raises; the exception leaves monitor_loop
RequestManagerRaises ==
    /\ pc = "start"
    /\ mgr' = "error"
    /\ pc' = "failed"
    /\ UNCHANGED << probe, lastVars, localVars, req, world, settled, ticks,
                    cycleVars, snapTaken, stopVars >>

\* a loop that never looks at the stop event
LoopConditionBlind == TRUE

\* line 181:  while not stop_event.is_set()
LoopCondition == ~stop_event

\* line 181 and 218: the stop event is seen set at the top of the loop
LoopExit ==
    /\ pc = "top"
    /\ ~LoopCondition
    /\ pc' = "done"
    /\ UNCHANGED << probe, mgr, lastVars, localVars, req, world, settled, ticks,
                    cycleVars, snapTaken, stopVars >>

\* lines 181-202 up to the first suspension: snapshot, classification, the
\* change block's print and its request
CycleBegin(raises) ==
    /\ pc = "top"
    /\ LoopCondition
    /\ settled => ~raises
    /\ LET sessions == list_sessions(world, raises)
           b   == any_browser_video_playing(sessions)
           k   == pick_spotify_session(sessions)
           s   == SessionHandle(spotify_session, sessions, k)
           sp  == get_spotify_playing(sessions, k)
           act == EdgeAction(last_browser_playing, b, sp)
       IN  /\ browser_playing' = b
           /\ spotify_session' = s
           /\ spotify_playing' = sp
           /\ enum_failed' = raises
           /\ snapTaken' = TRUE
           /\ log' = TransitionEvent(last_browser_playing, b)
           /\ nPause' = Count(act, "pause")
           /\ nPlay' = Count(act, "play")
           /\ IF ReachesPlatform(act, s)
              THEN /\ req' = [kind |-> act, target |-> s]
                   /\ nCmd' = 1
                   /\ pc' = "edge_wait"
              ELSE \* no request, or try_spotify_*(None) returned False
                   /\ req' = NoReq
                   /\ nCmd' = 0
                   /\ pc' = "level"
    /\ UNCHANGED << probe, mgr, lastVars, world, settled, ticks, failed, prev_failed,
                    stopVars >>

HasSession(w, app) == \E i \in 1..Len(w) : w[i].id = app

ApplyEffect(w, app, st) ==
    [i \in 1..Len(w) |-> IF w[i].id = app THEN [w[i] EXCEPT !.status = st] ELSE w[i]]

\* the platform answers the request in flight: the awaited call raises or
\* not, the call repeated in the handler raises or not, and the command
\* takes effect or not
Answer(firstRaises, secondRaises, effect) ==
    /\ req # NoReq
    /\ (firstRaises /\ secondRaises) => ~effect
    /\ ~firstRaises => ~secondRaises
    /\ (settled /\ HasSession(world, req.target)) => (~firstRaises /\ effect)
    /\ world' = IF effect THEN ApplyEffect(world, req.target, EffectStatus(req.kind))
                          ELSE world
    /\ failed' = IF TryResult(firstRaises, secondRaises) THEN failed ELSE req.kind
    /\ req' = NoReq

\* lines 194-196 / 200-202: the change block's request returns
EdgeRequestDone(firstRaises, secondRaises, effect) ==
    /\ pc = "edge_wait"
    /\ Answer(firstRaises, secondRaises, effect)
    /\ log' = IF TryResult(firstRaises, secondRaises)
              THEN Append(log, ActionEvent(req.kind))
              ELSE log
    /\ pc' = "level"
    /\ UNCHANGED << probe, mgr, lastVars, localVars, settled, ticks, enum_failed,
                    nPause, nPlay, nCmd, prev_failed, snapTaken, stopVars >>

\* lines 206-211: the reconcile block's request
LevelBlock ==
    /\ pc = "level"
    /\ LET act == LevelAction(browser_playing, spotify_playing)
       IN  /\ nPause' = nPause + Count(act, "pause")
           /\ nPlay' = nPlay + Count(act, "play")
           /\ IF ReachesPlatform(act, spotify_session)
              THEN /\ req' = [kind |-> act, target |-> spotify_session]
                   /\ nCmd' = nCmd + 1
                   /\ pc' = "level_wait"
              ELSE /\ req' = NoReq
                   /\ nCmd' = nCmd
                   /\ pc' = "update"
    /\ UNCHANGED << probe, mgr, lastVars, localVars, world, settled, ticks,
                    enum_failed, log, failed, prev_failed, snapTaken, stopVars >>

\* lines 208 / 211: the reconcile block's request returns (nothing printed)
LevelRequestDone(firstRaises, secondRaises, effect) ==
    /\ pc = "level_wait"
    /\ Answer(firstRaises, secondRaises, effect)
    /\ pc' = "update"
    /\ UNCHANGED << probe, mgr, lastVars, localVars, settled, ticks, enum_failed,
                    nPause, nPlay, nCmd, log, prev_failed, snapTaken, stopVars >>

\* a loop that forgets line 214
UpdateLastPartial ==
    /\ pc = "update"
    /\ last_browser_playing' = browser_playing
    /\ last_spotify_playing' = last_spotify_playing
    /\ ticks' = TicksPerInterval
    /\ pc' = "sleep"
    /\ enum_failed' = FALSE
    /\ nPause' = 0
    /\ nPlay' = 0
    /\ nCmd' = 0
    /\ log' = << >>
    /\ prev_failed' = failed
    /\ failed' = "none"
    /\ UNCHANGED << probe, mgr, localVars, req, world, settled, snapTaken, stopVars >>

\* lines 213-216: both last_* are replaced, then the sleep starts
UpdateLast ==
    /\ pc = "update"
    /\ last_browser_playing' = browser_playing
    /\ last_spotify_playing' = spotify_playing
    /\ ticks' = TicksPerInterval
    /\ pc' = "sleep"
    /\ enum_failed' = FALSE
    /\ nPause' = 0
    /\ nPlay' = 0
    /\ nCmd' = 0
    /\ log' = << >>
    /\ prev_failed' = failed
    /\ failed' = "none"
    /\ UNCHANGED << probe, mgr, localVars, req, world, settled, snapTaken, stopVars >>

\* line 216: asyncio.sleep(POLL_INTERVAL) runs its whole interval, one tick
\* at a time; nothing reads stop_event meanwhile
SleepTick ==
    /\ pc = "sleep"
    /\ ticks' = ticks - 1
    /\ pc' = IF ticks = 1 THEN "top" ELSE "sleep"
    /\ ticksSinceStop' = IF stopInSleep /\ ticksSinceStop < TicksPerInterval
                         THEN ticksSinceStop + 1 ELSE ticksSinceStop
    /\ UNCHANGED << probe, mgr, lastVars, localVars, req, world, settled, cycleVars,
                    snapTaken, stop_event, stopInSleep >>

\* line 227: the hotkey thread runs  lambda: stop_event.set()
HotkeyStop ==
    /\ ~stop_event
    /\ pc \notin {"done", "failed"}
    /\ stop_event' = TRUE
    /\ stopInSleep' = (pc = "sleep")
    /\ UNCHANGED << probe, pc, mgr, lastVars, localVars, req, world, settled, ticks,
                    cycleVars, snapTaken, ticksSinceStop >>

\* ------------------------------------------------------- environment
\* The platform changes while the loop is suspended in an await.
Suspended == pc \in {"start", "edge_wait", "level_wait", "sleep"}

OpenSession(app, st) ==
    /\ Suspended /\ ~settled
    /\ Len(world) < MaxSessions
    /\ ~HasSession(world, app)
    /\ world' = Append(world, [id |-> app, status |-> st, ptype |-> NoStatus])
    /\ UNCHANGED << probe, pc, mgr, lastVars, localVars, req, settled, ticks,
                    cycleVars, snapTaken, stopVars >>

CloseSession(i) ==
    /\ Suspended /\ ~settled
    /\ i \in 1..Len(world)
    /\ world' = SubSeq(world, 1, i - 1) \o SubSeq(world, i + 1, Len(world))
    /\ UNCHANGED << probe, pc, mgr, lastVars, localVars, req, settled, ticks,
                    cycleVars, snapTaken, stopVars >>

ChangeStatus(i, st) ==
    /\ Suspended /\ ~settled
    /\ i \in 1..Len(world)
    /\ world[i].status # st
    /\ world' = [world EXCEPT ![i].status = st]
    /\ UNCHANGED << probe, pc, mgr, lastVars, localVars, req, settled, ticks,
                    cycleVars, snapTaken, stopVars >>

\* From here on nothing but the loop's requests changes the platform: the
\* browser sessions keep their state, the first Spotify session is there with
\* a readable status and is no browser session, and requests succeed.
Settle ==
    /\ Suspended /\ ~settled
    /\ pc # "start"
    /\ LET k == pick_spotify_session(world)
       IN  /\ k # 0
           /\ world[k].status # NoStatus
           /\ ~session_is_browser(world[k])
    /\ settled' = TRUE
    /\ UNCHANGED << probe, pc, mgr, lastVars, localVars, req, world, ticks,
                    cycleVars, snapTaken, stopVars >>

LoopNext ==
    \/ RequestManagerOk
    \/ RequestManagerRaises
    \/ LoopExit
    \/ \E raises \in BOOLEAN : CycleBegin(raises)
    \/ \E r1, r2, e \in BOOLEAN : EdgeRequestDone(r1, r2, e)
    \/ LevelBlock
    \/ \E r1, r2, e \in BOOLEAN : LevelRequestDone(r1, r2, e)
    \/ UpdateLast
    \/ SleepTick

EnvNext ==
    \/ \E app \in Apps, st \in EnvStatuses : OpenSession(app, st)
    \/ \E i \in 1..MaxSessions : CloseSession(i)
    \/ \E i \in 1..MaxSessions, st \in EnvStatuses : ChangeStatus(i, st)

Next == LoopNext \/ EnvNext \/ HotkeyStop

Spec == Init /\ [][Next]_vars

\* The event loop resumes the task whenever its await can return.
LiveNext == Next \/ Settle

LiveSpec == Init /\ [][LiveNext]_vars /\ WF_vars(LoopNext)

\* ------------------------------------------- classification on its own
\* lines 182-185 applied to one snapshot, for every snapshot of at most
\* MaxSnapshot sessions with any status and playback type
ClassifyInit ==
    /\ pc = "snapshot"
    /\ world \in SessionLists(AllApps, AllStatuses, AllPtypes, MaxSnapshot)
    /\ mgr = "ok"
    /\ stop_event = FALSE
    /\ last_browser_playing = "None"
    /\ last_spotify_playing = "None"
    /\ browser_playing = "None"
    /\ spotify_session = "None"
    /\ spotify_playing = "None"
    /\ req = NoReq
    /\ settled = FALSE
    /\ ticks = 0
    /\ enum_failed = FALSE
    /\ nPause = 0
    /\ nPlay = 0
    /\ nCmd = 0
    /\ log = << >>
    /\ failed = "none"
    /\ prev_failed = "none"
    /\ snapTaken = FALSE
    /\ stopInSleep = FALSE
    /\ ticksSinceStop = 0
    /\ probe = NoProbe

Classify ==
    /\ pc = "snapshot"
    /\ LET sessions == list_sessions(world, FALSE)
           k == pick_spotify_session(sessions)
       IN  /\ browser_playing' = any_browser_video_playing(sessions)
           /\ spotify_session' = SessionHandle(spotify_session, sessions, k)
           /\ spotify_playing' = get_spotify_playing(sessions, k)
    /\ snapTaken' = TRUE
    /\ pc' = "classified"
    /\ UNCHANGED << probe, mgr, lastVars, req, world, settled, ticks, cycleVars,
                    stopVars >>

ClassifyNext == Classify

ClassifySpec == ClassifyInit /\ [][ClassifyNext]_vars

\* ------------------------------------------- identity matching on its own
\* lower-case identities: with and without a keyword, a near miss, the empty
\* string and a missing identity
ProbeBases ==
    { Str_chrome,
      <<"c","h","r","o","m","e",".","e","x","e">>,
      Str_msedge,
      Str_firefox,
      SPOTIFY_AUMID_TOKEN,
      <<"s","p","o","t","i","f","y",".","m","s","e","d","g","e">>,
      <<"c","h","r","o","m">>,
      <<"s","p","o","t","i","f">>,
      <<"v","l","c">>,
      << >>,
      <<"None">> }

\* every letter-case variant of every base
CaseInit ==
    /\ pc = "probe"
    /\ \E base \in ProbeBases : \E mask \in SUBSET (1..Len(base)) :
           probe = [base |-> base, text |-> Variant(base, mask), done |-> FALSE,
                    browser |-> FALSE, spotify |-> FALSE]
    /\ world = << >>
    /\ mgr = "none"
    /\ stop_event = FALSE
    /\ last_browser_playing = "None"
    /\ last_spotify_playing = "None"
    /\ browser_playing = "None"
    /\ spotify_session = "None"
    /\ spotify_playing = "None"
    /\ req = NoReq
    /\ settled = FALSE
    /\ ticks = 0
    /\ enum_failed = FALSE
    /\ nPause = 0
    /\ nPlay = 0
    /\ nCmd = 0
    /\ log = << >>
    /\ failed = "none"
    /\ prev_failed = "none"
    /\ snapTaken = FALSE
    /\ stopInSleep = FALSE
    /\ ticksSinceStop = 0

\* lines 50-56: both predicates applied to the identity
Match ==
    /\ pc = "probe"
    /\ ~probe.done
    /\ probe' = [probe EXCEPT !.done = TRUE,
                              !.browser = is_browser_session(probe.text),
                              !.spotify = is_spotify_session(probe.text)]
    /\ UNCHANGED << pc, mgr, lastVars, localVars, req, world, settled, ticks,
                    cycleVars, snapTaken, stopVars >>

CaseNext == Match

CaseSpec == CaseInit /\ [][CaseNext]_vars

\* --------------------------------- the loop alone with the platform
\* Any sessions to begin with; after that the platform changes only by the
\* loop's commands, which succeed and take effect at once.
QuietInit ==
    /\ pc = "start"
    /\ world \in SessionLists(Apps, EnvStatuses, {NoStatus}, MaxSessions)
    /\ settled = TRUE
    /\ mgr = "none"
    /\ stop_event = FALSE
    /\ last_browser_playing = "None"
    /\ last_spotify_playing = "None"
    /\ browser_playing = "None"
    /\ spotify_session = "None"
    /\ spotify_playing = "None"
    /\ req = NoReq
    /\ ticks = 0
    /\ enum_failed = FALSE
    /\ nPause = 0
    /\ nPlay = 0
    /\ nCmd = 0
    /\ log = << >>
    /\ failed = "none"
    /\ prev_failed = "none"
    /\ snapTaken = FALSE
    /\ stopInSleep = FALSE
    /\ ticksSinceStop = 0
    /\ probe = NoProbe

QuietNext == LoopNext \/ HotkeyStop

QuietSpec == QuietInit /\ [][QuietNext]_vars /\ WF_vars(LoopNext)

\* ===================================================================
\* Properties
\* ===================================================================
\* the last snapshot satisfies the policy: Spotify observed not playing
\* while a browser plays, playing while none does
PolicyMet ==
    \/ browser_playing = "True" /\ spotify_playing = "False"
    \/ browser_playing = "False" /\ spotify_playing = "True"

Requests == nPause + nPlay

\* C1 - Mutual-exclusion convergence.  In every run in which the loop is
\* never stopped and from some cycle on the environment is settled (the
\* browser sessions keep their playing state, the snapshot holds a player
\* session with readable status, every request succeeds and takes effect
\* before the next snapshot, and nothing else changes the player), from
\* some cycle on every snapshot shows the player Paused if a browser
\* plays and Playing if none does.
C1_Convergence ==
    (<>[]settled /\ []~stop_event) => <>[]PolicyMet

\* a settled run that saw browser and player both playing in one cycle and
\* the player paused in the next
C1_Witness ==
    /\ settled /\ pc = "update"
    /\ last_browser_playing = "True" /\ last_spotify_playing = "True"
    /\ browser_playing = "True" /\ spotify_playing = "False"

\* C2 - Level-triggered enforcement.  Whatever the previous state, a cycle
\* that observes browser playing and player playing has issued a
\* pause-request by its end, and a cycle that observes browser not playing
\* and player not playing has issued a play-request.
C2_LevelTriggered ==
    pc = "update" =>
        /\ (browser_playing = "True" /\ spotify_playing = "True") => nPause >= 1
        /\ (browser_playing = "False" /\ spotify_playing = "False") => nPlay >= 1

\* a cycle without a change of browser playback, after the player was seen
\* paused, finds it playing again and pauses it
C2_Witness ==
    /\ pc = "update"
    /\ last_browser_playing = "True" /\ last_spotify_playing = "False"
    /\ browser_playing = "True" /\ spotify_playing = "True"
    /\ nPause = 1

\* C3 - Unknown player state still drives the action.  In every cycle in
\* which player_active is Unknown, a pause-request is issued if a browser
\* plays and a play-request if none does.
C3_UnknownDrives ==
    (pc = "update" /\ spotify_playing = "None") =>
        /\ browser_playing = "True" => nPause >= 1
        /\ browser_playing = "False" => nPlay >= 1

\* C4 - At most one action request per cycle.
C4_AtMostOneRequest == Requests <= 1

\* C5 - No-op when already satisfied.  A cycle whose snapshot satisfies the
\* policy (browser playing and player not playing, or browser not playing
\* and player playing) issues no request, whatever the previous state.
C5_NoOpWhenSatisfied ==
    PolicyMet => (Requests = 0 /\ nCmd = 0 /\ req = NoReq)

\* the cycle after a pause that took effect: same browser state, player
\* now seen paused, nothing issued
C5_Witness ==
    /\ pc = "update"
    /\ last_browser_playing = "True" /\ last_spotify_playing = "True"
    /\ browser_playing = "True" /\ spotify_playing = "False"
    /\ Requests = 0

\* C6 - Cancellation interrupts the interval wait.  Once a tick has gone
\* by since the stop event was set during the sleep, the loop is no longer
\* sleeping.
C6_StopInterruptsSleep ==
    (stopInSleep /\ ticksSinceStop >= 1) => pc # "sleep"

\* C7 - Clean termination on cancellation.  Once the stop event is set the
\* loop ends (Stopped, or the startup error); a request in flight is
\* answered before the loop exits; a cycle that finds the event set at its
\* top takes no snapshot and issues nothing; nothing is issued after
\* Stopped.
C7_CleanTermination ==
    /\ stop_event ~> (pc \in {"done", "failed"})
    /\ [][req # NoReq => pc' # "done"]_vars
    /\ [][(pc = "top" /\ stop_event) =>
            (pc' \in {"top", "done"} /\ UNCHANGED << localVars, cycleVars, req, world >>)]_vars
    /\ [][pc = "done" =>
            (pc' = "done" /\ UNCHANGED << localVars, cycleVars, req, world >>)]_vars

\* the loop stopped after running cycles, the event having been set
\* during a sleep
C7_Witness ==
    pc = "done" /\ stopInSleep /\ last_browser_playing # "None"

\* C8 - Action failure is contained and retried.  After a request whose
\* platform call raised, the loop goes on, and if the next cycle's snapshot
\* still does not satisfy the policy (player_active anything but the
\* already-correct value, Unknown included) the same request is issued
\* again in that cycle.
C8_FailureRetried ==
    /\ failed # "none" => pc \in {"level", "level_wait", "update"}
    /\ pc = "update" =>
        /\ (prev_failed = "pause" /\ browser_playing = "True"
                /\ spotify_playing # "False") => nPause >= 1
        /\ (prev_failed = "play" /\ browser_playing = "False"
                /\ spotify_playing # "True") => nPlay >= 1

\* C9 - Fatal startup.  If the session manager cannot be obtained the error
\* leaves monitor_loop: no snapshot is taken, nothing is printed, no request
\* is issued, and the loop state is never written.
C9_FatalStartup ==
    mgr = "error" =>
        /\ pc = "failed"
        /\ ~snapTaken
        /\ log = << >>
        /\ Requests = 0 /\ nCmd = 0 /\ req = NoReq
        /\ last_browser_playing = "None" /\ last_spotify_playing = "None"

\* the startup failed although there were sessions to act on
C9_Witness ==
    /\ mgr = "error" /\ pc = "failed"
    /\ \E i \in 1..Len(world) : world[i].id = "chrome" /\ world[i].status = PLAYING
    /\ \E i \in 1..Len(world) : world[i].id = "spotify" /\ world[i].status = PLAYING

\* C10 (as claimed) - Transient enumeration failure.  A cycle whose
\* enumeration fails is classified as an empty snapshot, issues no action,
\* and does not end the loop.
C10_NoAction ==
    enum_failed =>
        /\ browser_playing = "False"
        /\ spotify_session = "None" /\ spotify_playing = "None"
        /\ Requests = 0
        /\ pc \in {"level", "update"}

\* C10 (amended) - A cycle whose enumeration fails is classified as an
\* empty snapshot; no command reaches the platform and nothing but the
\* change of browser playback is printed, yet a play-request is issued to
\* the executor (with no session) exactly when the cycle is the first or
\* follows one that saw a browser playing; the loop goes on to its sleep,
\* and every cycle classifies the sessions the platform has when it starts
\* unless its own enumeration fails.
C10_EnumerationFailure ==
    /\ [](enum_failed =>
            /\ browser_playing = "False"
            /\ spotify_session = "None" /\ spotify_playing = "None"
            /\ nCmd = 0 /\ req = NoReq
            /\ nPause = 0
            /\ nPlay = (IF last_browser_playing # "False" THEN 1 ELSE 0)
            /\ log = TransitionEvent(last_browser_playing, "False")
            /\ pc \in {"level", "update"})
    /\ [][enum_failed => pc' \in {"level", "update", "sleep"}]_vars
    /\ [][(pc = "top" /\ pc' \notin {"top", "done"}) =>
            (enum_failed' \/
                /\ browser_playing' = any_browser_video_playing(world)
                /\ spotify_playing' =
                      get_spotify_playing(world, pick_spotify_session(world)))]_vars

\* enumeration fails while a browser and Spotify are both playing, in a
\* cycle after one that saw the browser playing: play is requested of None
C10_Witness ==
    /\ enum_failed /\ pc = "update"
    /\ last_browser_playing = "True"
    /\ nPlay = 1
    /\ \E i \in 1..Len(world) : world[i].id = "chrome" /\ world[i].status = PLAYING
    /\ \E i \in 1..Len(world) : world[i].id = "spotify" /\ world[i].status = PLAYING

\* the pcs of a cycle between its snapshot and the update of last_*
InCycle == pc \in {"edge_wait", "level", "level_wait", "update"}

TransitionLines ==
    {"Browser media is now PLAYING", "Browser media is now PAUSED/STOPPED"}

ActionLines == {"Paused Spotify.", "Played Spotify."}

\* how many of the lines printed in this cycle are of the given kind
Printed(lines) == Cardinality({i \in 1..Len(log) : log[i] \in lines})

HasStatus(app, st) ==
    \E i \in 1..Len(world) : world[i].id = app /\ world[i].status = st

\* C11 - The reconciliation state is replaced atomically each cycle.  Until
\* the first cycle ends it is (None, None); it changes only in the step that
\* ends a cycle, which sets both fields to that cycle's classification (not
\* to the outcome of its requests) with no request or platform change in
\* between; so when a later cycle starts the pair is the previous cycle's
\* classification.
C11_AtomicUpdate ==
    /\ [](~snapTaken =>
            (last_browser_playing = "None" /\ last_spotify_playing = "None"))
    /\ []((pc \in {"sleep", "top"} /\ snapTaken) =>
            (last_browser_playing = browser_playing
                /\ last_spotify_playing = spotify_playing))
    /\ [][pc # "update" => UNCHANGED lastVars]_vars
    /\ [][(pc = "update" /\ pc' # "update") =>
            /\ last_browser_playing' = browser_playing
            /\ last_spotify_playing' = spotify_playing
            /\ UNCHANGED << localVars, req, world >>]_vars

\* the cycle saw Spotify playing and paused it; the state kept is the
\* observed True although the player is paused by now
C11_Witness ==
    /\ pc = "sleep" /\ prev_failed = "none"
    /\ last_browser_playing = "True" /\ last_spotify_playing = "True"
    /\ spotify_session = "spotify" /\ HasStatus("spotify", PAUSED)

\* C12 - Every executed action is logged with its outcome: by the end of a
\* cycle there is one action line for each pause or play command that was
\* sent to a session.
C12_ActionsLogged ==
    pc = "update" => Printed(ActionLines) = nCmd

\* C13 - Transition event.  A cycle prints a "Browser media is now ..." line
\* (exactly one, naming the new state) if and only if browser_playing
\* differs from last_browser_playing or last_browser_playing is None.
C13_TransitionEvent ==
    InCycle =>
        /\ Printed(TransitionLines) =
              (IF last_browser_playing = "None"
                     \/ browser_playing # last_browser_playing THEN 1 ELSE 0)
        /\ Printed(TransitionLines) = 1 =>
              log[1] = (IF browser_playing = "True"
                        THEN "Browser media is now PLAYING"
                        ELSE "Browser media is now PAUSED/STOPPED")

\* a later cycle in which the browser stopped playing
C13_Witness ==
    /\ pc = "update"
    /\ last_browser_playing = "True" /\ browser_playing = "False"
    /\ Len(log) >= 1 /\ log[1] = "Browser media is now PAUSED/STOPPED"

\* C16 - No session handle is carried across cycles.  The handle a cycle
\* uses is the first Spotify session of the sessions the platform has when
\* the cycle takes its snapshot (None when there is none or enumeration
\* failed), whatever handle the previous cycle held; it does not change
\* within the cycle, and every request targets it.
C16_NoStaleHandle ==
    /\ [](req # NoReq => (req.target = spotify_session /\ spotify_session # "None"))
    /\ [][pc # "top" => spotify_session' = spotify_session]_vars
    /\ [][(pc = "top" /\ pc' \notin {"top", "done"}) =>
            spotify_session' =
                (IF enum_failed' \/ pick_spotify_session(world) = 0
                 THEN "None"
                 ELSE world[pick_spotify_session(world)].id)]_vars

\* the previous cycle saw no browser playing and the player playing, so
\* its player was the desktop Spotify; that session is gone and this
\* cycle's request goes to the other Spotify session
C16_Witness ==
    /\ pc = "edge_wait"
    /\ last_browser_playing = "False" /\ last_spotify_playing = "True"
    /\ req.target = "spotifyweb"
    /\ ~HasSession(world, "spotify")

\* C18 - Direction safety.  A pause-request is issued only in a cycle that
\* saw a browser playing and a play-request only in one that saw none, so
\* no cycle issues both.
C18_DirectionSafety ==
    /\ nPause > 0 => browser_playing = "True"
    /\ nPlay > 0 => browser_playing = "False"
    /\ ~(nPause > 0 /\ nPlay > 0)
    /\ req.kind = "pause" => browser_playing = "True"
    /\ req.kind = "play" => browser_playing = "False"

\* a cycle in which both blocks issued a request
C18_Witness ==
    pc = "update" /\ nPause = 2 /\ browser_playing = "True"

\* C19 - No command without a player.  In a cycle whose snapshot has no
\* Spotify session no command reaches the platform and no "Paused" /
\* "Played" line is printed, even when a request is issued.
C19_NoCommandWithoutPlayer ==
    spotify_session = "None" =>
        (nCmd = 0 /\ req = NoReq /\ Printed(ActionLines) = 0)

\* the browser stopped playing, no Spotify session is there, and play was
\* requested of None
C19_Witness ==
    /\ pc = "update" /\ spotify_session = "None" /\ ~enum_failed
    /\ last_browser_playing = "True" /\ browser_playing = "False"
    /\ nPlay = 1 /\ Len(world) >= 1

\* C14 - Video classification.  For every snapshot browser_playing is True
\* if and only if some session whose identity matches a browser keyword
\* has status PLAYING, and False otherwise; the answer is the same for the
\* snapshot in reverse order, with every playback type unreadable, and
\* with the non-browser sessions left out, and a session with unreadable
\* status counts as not playing without hiding the sessions after it.
C14_VideoClassification ==
    pc = "classified" =>
        LET n == Len(world)
            reversed == [i \in 1..n |-> world[n + 1 - i]]
            untyped == [i \in 1..n |-> [world[i] EXCEPT !.ptype = NoStatus]]
            browsers == SelectSeq(world, session_is_browser)
        IN  /\ browser_playing \in {"True", "False"}
            /\ browser_playing = "True" <=>
                 \E i \in 1..n :
                    /\ is_browser_session(source_app_user_model_id(world[i]))
                    /\ world[i].status = PLAYING
            /\ browser_playing = any_browser_video_playing(reversed)
            /\ browser_playing = any_browser_video_playing(untyped)
            /\ browser_playing = any_browser_video_playing(browsers)

\* a browser session with unreadable status ahead of a playing one whose
\* playback type is Music
C14_Witness ==
    /\ pc = "classified" /\ Len(world) = 2
    /\ session_is_browser(world[1]) /\ world[1].status = NoStatus
    /\ session_is_browser(world[2]) /\ world[2].status = PLAYING
    /\ world[2].ptype = 1
    /\ browser_playing = "True"

\* C15 - Player classification.  For every snapshot spotify_session is the
\* first session in snapshot order whose identity contains the Spotify
\* token, or None; spotify_playing is None if there is no such session or
\* its status is unreadable, True if its status is PLAYING, False for
\* CLOSED, OPENED, CHANGING, STOPPED and PAUSED; later Spotify sessions
\* do not matter.
C15_PlayerClassification ==
    pc = "classified" =>
        LET M == {i \in 1..Len(world) :
                    is_spotify_session(source_app_user_model_id(world[i]))}
        IN  IF M = {}
            THEN spotify_session = "None" /\ spotify_playing = "None"
            ELSE LET k == CHOOSE i \in M : \A j \in M : i <= j
                     st == world[k].status
                 IN  /\ spotify_session = world[k].id
                     /\ st = NoStatus => spotify_playing = "None"
                     /\ st = PLAYING => spotify_playing = "True"
                     /\ st \in {CLOSED, OPENED, CHANGING, STOPPED, PAUSED}
                            => spotify_playing = "False"

\* two Spotify sessions, the first stopped and the second playing
C15_Witness ==
    /\ pc = "classified" /\ Len(world) = 2
    /\ session_is_spotify(world[1]) /\ world[1].status = STOPPED
    /\ session_is_spotify(world[2]) /\ world[2].status = PLAYING
    /\ spotify_session = world[1].id /\ spotify_playing = "False"

Text_Chrome == <<"C","h","r","o","m","e">>
Text_CHROME_EXE == <<"C","H","R","O","M","E",".","E","X","E">>

\* C17 - Case-insensitive substring matching.  Every letter-case variant of
\* an identity gets the verdict of its lower-case form: is_browser_session
\* is true exactly when that form contains a browser keyword and
\* is_spotify_session exactly when it contains the Spotify token; "Chrome",
\* "CHROME.EXE" and "chrome" match as browsers; the empty and the missing
\* identity match neither.
C17_CaseInsensitive ==
    probe.done =>
        /\ probe.browser =
              (probe.base # <<"None">>
                 /\ \E j \in 1..Len(BROWSER_AUMID_KEYWORDS) :
                       Contains(probe.base, BROWSER_AUMID_KEYWORDS[j]))
        /\ probe.spotify =
              (probe.base # <<"None">>
                 /\ Contains(probe.base, SPOTIFY_AUMID_TOKEN))
        /\ probe.text \in {Text_Chrome, Text_CHROME_EXE, Str_chrome}
              => probe.browser
        /\ probe.text \in {<< >>, <<"None">>}
              => (~probe.browser /\ ~probe.spotify)

\* the upper-case identity was matched as a browser and not as Spotify
C17_Witness ==
    probe.done /\ probe.text = Text_CHROME_EXE /\ probe.browser /\ ~probe.spotify

\* C20 - Quiescence.  When the platform changes only by the loop's own
\* successful commands and the loop is never stopped, from some cycle on
\* no pause or play request is issued, whatever sessions there were at the
\* start.
C20_Quiescence ==
    []~stop_event => <>[](Requests = 0 /\ req = NoReq)

====
